---- MODULE Spec2Model ----
(***************************************************************************)
(* Model of odata/entity.py: EntityBase.__new__ (construction and          *)
(* hydration from a raw mapping), EntityBase.__eq__, EntityBase.__repr__   *)
(* and the class URL resolver EntityBase.__odata_url__, together with the  *)
(* parts of the EntityState companion and of the property descriptors      *)
(* that these methods call.                                                *)
(***************************************************************************)
EXTENDS Integers, Sequences, FiniteSets, TLC

(***************************************************************************)
(* Bounds of the model.                                                    *)
(***************************************************************************)
\* number of entity instances the caller keeps alive
MaxInstances == 2
\* longest embedded list payload of a collection navigation property
MaxItems == 2

(***************************************************************************)
(* Python values.  Every value is a record of one shape so that any two    *)
(* can be compared: k is the Python type, i the int, s the str (or the     *)
(* identity of an embedded object payload), items the elements of a list   *)
(* payload.                                                                *)
(***************************************************************************)
PyVal(k, i, s, items) == [k |-> k, i |-> i, s |-> s, items |-> items]
None == PyVal("none", 0, "", <<>>)
IntV(n) == PyVal("int", n, "", <<>>)
StrV(t) == PyVal("str", 0, t, <<>>)
\* an embedded single-object payload (a nested raw mapping), named by t
DictV(t) == PyVal("dict", 0, t, <<>>)
\* an embedded list payload, its elements named in order
ListV(ts) == PyVal("list", 0, "", ts)

\* Python truth value of a value, as tested by `if value:` / `if my_id:`
Truthy(v) ==
    CASE v.k = "none" -> FALSE
      [] v.k = "int"  -> v.i # 0
      [] v.k = "str"  -> v.s # ""
      [] v.k = "list" -> v.items # <<>>
      [] OTHER        -> TRUE

(***************************************************************************)
(* Declared entity classes.  props are the value properties and navs the   *)
(* navigation properties, each in the order EntityState enumerates them;   *)
(* name is the wire name, attr the attribute name used by the developer.   *)
(***************************************************************************)
\* (scheme, netloc, path) as urlparse gives them: path is path.split('/')
Components(scheme, netloc, path) ==
    [scheme |-> scheme, netloc |-> netloc, path |-> path]
\* a URL string together with the components urlparse splits it into
Url(text, scheme, netloc, path) ==
    [text |-> text, scheme |-> scheme, netloc |-> netloc, path |-> path]

ValueProp(attr, name, pk, type) ==
    [attr |-> attr, name |-> name, primary_key |-> pk, type |-> type]
NavProp(attr, name, coll) ==
    [attr |-> attr, name |-> name, is_collection |-> coll]

Product ==
    [clsname |-> "Product", odata_type |-> "ProductDataService.Objects.Product",
     collection |-> Url("Products", "", "", <<"Products">>),
     props |-> << ValueProp("id", "Id", TRUE, "int"),
                  ValueProp("created_date", "Created", FALSE, "datetime"),
                  ValueProp("modified_date", "Modified", FALSE, "datetime"),
                  ValueProp("name", "ProductName", FALSE, "str"),
                  ValueProp("quantity_in_storage", "QuantityInStorage",
                            FALSE, "int") >>,
     navs  |-> << >>]
\* no primary key declared
Note ==
    [clsname |-> "Note", odata_type |-> "ODataSchema.Entity",
     collection |-> Url("/Notes", "", "", <<"", "Notes">>),
     props |-> << ValueProp("text", "Text", FALSE, "str") >>,
     navs  |-> << NavProp("tags", "Tags", TRUE) >>]
\* string key; the wire name Ref is declared three times: by a value
\* property, by a single and by a collection navigation property
Link ==
    [clsname |-> "Link", odata_type |-> "ODataSchema.Entity",
     collection |-> Url("https://other/Links", "https", "other", <<"", "Links">>),
     props |-> << ValueProp("code", "Code", TRUE, "str"),
                  ValueProp("ref", "Ref", FALSE, "str") >>,
     navs  |-> << NavProp("target", "Ref", FALSE),
                  NavProp("targets", "Ref", TRUE) >>]

Classes == {Product, Note, Link}
ClassNames == {c.clsname : c \in Classes}
ClassOf(n) == CHOOSE c \in Classes : c.clsname = n

Range(f) == {f[x] : x \in DOMAIN f}
ValueWires(c) == {p.name : p \in Range(c.props)}
NavWires(c) == {p.name : p \in Range(c.navs)}

(***************************************************************************)
(* EntityState, the per-instance companion (odata/state.py).               *)
(***************************************************************************)
\* EntityState(i): no values, nothing dirty, nothing resolved
EntityState(c) ==
    [cls |-> c.clsname, data |-> <<>>, nav_cache |-> <<>>, dirty |-> {}]

\* es[key] = value
StateSetItem(es, key, value) ==
    [es EXCEPT !.data = (key :> value) @@ es.data]

\* es[key]
StateGetItem(es, key) == es.data[key]

\* es.properties / es.navigation_properties
properties(es) == ClassOf(es.cls).props
navigation_properties(es) == ClassOf(es.cls).navs

\* es.primary_key_property: the key property, or the sentinel
NoProp == ValueProp("", "", FALSE, "")
primary_key_property(es) ==
    LET pk == {n \in DOMAIN properties(es) : properties(es)[n].primary_key}
    IN  IF pk = {} THEN NoProp
        ELSE properties(es)[CHOOSE n \in pk : \A m \in pk : n <= m]

\* es.id: the primary-key value, null when none is declared or stored
id(es) ==
    LET prop == primary_key_property(es)
    IN  IF prop = NoProp \/ prop.name \notin DOMAIN es.data THEN None
        ELSE es.data[prop.name]

(***************************************************************************)
(* Property descriptors (odata/property.py, odata/navproperty.py).         *)
(***************************************************************************)
Digit(n) == <<"0", "1", "2", "3", "4", "5", "6", "7", "8", "9">>[n + 1]
RECURSIVE IntToStr(_)
IntToStr(n) ==
    IF n < 10 THEN Digit(n) ELSE IntToStr(n \div 10) \o Digit(n % 10)

\* prop.escape_value(value), formatted into the representation
escape_value(prop, value) ==
    CASE value.k = "int" -> IntToStr(value.i)
      [] value.k = "str" -> "'" \o value.s \o "'"
      [] OTHER           -> "None"

\* the related entity hydrated from one embedded object payload
instance_from_data(t) == [entity |-> t]

\* prop.instances_from_data(expanded_data)
instances_from_data(prop, payload) ==
    IF prop.is_collection
    THEN [n \in 1..Len(payload.items) |-> instance_from_data(payload.items[n])]
    ELSE instance_from_data(payload.s)

(***************************************************************************)
(* Raw-data mappings (Python dicts from wire name to value).               *)
(***************************************************************************)
EmptyDict == [w \in {} |-> None]

\* key in raw_data
DictHas(d, key) == key \in DOMAIN d

\* raw_data.get(key): null when absent
DictGet(d, key) == IF key \in DOMAIN d THEN d[key] ELSE None

\* the mapping left by raw_data.pop(key)
DictPopKeepsKey(d, key) == d
DictPop(d, key) == [w \in DOMAIN d \ {key} |-> d[w]]

(***************************************************************************)
(* EntityBase.__new__                                                      *)
(***************************************************************************)
\* body of the $expand loop for one navigation property
ExpandStepAlwaysSingle(st, prop) ==
    IF DictHas(st.raw_data, prop.name)
    THEN [es |-> [st.es EXCEPT !.nav_cache =
                    (prop.name :> [single |->
                        instances_from_data(prop, st.raw_data[prop.name])])
                    @@ st.es.nav_cache],
          raw_data |-> DictPop(st.raw_data, prop.name)]
    ELSE st
ExpandStep(st, prop) ==
    IF DictHas(st.raw_data, prop.name)
    THEN LET expanded_data == st.raw_data[prop.name]
             entry == IF prop.is_collection
                      THEN [collection |-> instances_from_data(prop, expanded_data)]
                      ELSE [single |-> instances_from_data(prop, expanded_data)]
         IN  [es |-> [st.es EXCEPT !.nav_cache =
                         (prop.name :> entry) @@ st.es.nav_cache],
              raw_data |-> DictPop(st.raw_data, prop.name)]
    ELSE st

RECURSIVE ExpandLoop(_, _)
ExpandLoop(st, n) ==
    IF n > Len(navigation_properties(st.es)) THEN st
    ELSE ExpandLoop(ExpandStep(st, navigation_properties(st.es)[n]), n + 1)

\* body of the value loop with from_data: i.__odata__[prop.name] = raw_data.get(prop.name)
HydrateStepByAttr(es, raw_data, prop) ==
    StateSetItem(es, prop.name, DictGet(raw_data, prop.attr))
HydrateStepSkipsMissing(es, raw_data, prop) ==
    IF DictHas(raw_data, prop.name)
    THEN StateSetItem(es, prop.name, raw_data[prop.name])
    ELSE es
HydrateStepMarksDirty(es, raw_data, prop) ==
    [StateSetItem(es, prop.name, DictGet(raw_data, prop.name))
        EXCEPT !.dirty = @ \cup {prop.name}]
HydrateStep(es, raw_data, prop) ==
    StateSetItem(es, prop.name, DictGet(raw_data, prop.name))

RECURSIVE HydrateLoop(_, _, _)
HydrateLoop(es, raw_data, n) ==
    IF n > Len(properties(es)) THEN es
    ELSE HydrateLoop(HydrateStep(es, raw_data, properties(es)[n]), raw_data, n + 1)

\* body of the value loop without from_data: i.__odata__[prop.name] = None
NullStepKeyOnly(es, prop) ==
    IF prop.primary_key THEN StateSetItem(es, prop.name, None) ELSE es
NullStep(es, prop) == StateSetItem(es, prop.name, None)

RECURSIVE NullLoop(_, _)
NullLoop(es, n) ==
    IF n > Len(properties(es)) THEN es
    ELSE NullLoop(NullStep(es, properties(es)[n]), n + 1)

\* kwargs of a construction: from_data is read only when has_from_data
NoData == [has_from_data |-> FALSE, from_data |-> EmptyDict]
FromData(d) == [has_from_data |-> TRUE, from_data |-> d]

\* cls(**kwargs): the new instance's state and the caller's mapping as left
new(c, kwargs) ==
    LET es == EntityState(c)
    IN  IF kwargs.has_from_data
        THEN LET st == ExpandLoop([es |-> es, raw_data |-> kwargs.from_data], 1)
             IN  [es |-> HydrateLoop(st.es, st.raw_data, 1),
                  raw_data |-> st.raw_data]
        ELSE [es |-> NullLoop(es, 1), raw_data |-> kwargs.from_data]

(***************************************************************************)
(* EntityBase.__eq__ and EntityBase.__repr__                               *)
(***************************************************************************)
\* the right-hand side of ==: an entity instance (its state) or another value
EntityArg(es) == [is_entity |-> TRUE, es |-> es, value |-> None]
ValueArg(v) == [is_entity |-> FALSE, es |-> EntityState(Note), value |-> v]

\* self == other
eq(self, other) ==
    IF other.is_entity
    THEN LET my_id == id(self)
         IN  IF Truthy(my_id) THEN my_id = id(other.es) ELSE FALSE
    ELSE FALSE

\* repr(self)
repr(self) ==
    LET clsname == self.cls
        prop == primary_key_property(self)
    IN  IF prop # NoProp /\ Truthy(StateGetItem(self, prop.name))
        THEN "<Entity(" \o clsname \o ":"
                 \o escape_value(prop, StateGetItem(self, prop.name)) \o ")>"
        ELSE "<Entity(" \o clsname \o ")>"

(***************************************************************************)
(* urljoin (urllib.parse), on parsed URLs; the result is the URL string.   *)
(***************************************************************************)
RECURSIVE JoinSlash(_)
JoinSlash(segs) ==
    IF segs = <<>> THEN ""
    ELSE IF Len(segs) = 1 THEN segs[1]
    ELSE segs[1] \o "/" \o JoinSlash(Tail(segs))

uses_relative ==
    {"", "ftp", "http", "gopher", "nntp", "imap", "wais", "file", "https",
     "shttp", "mms", "prospero", "rtsp", "rtsps", "rtspu", "sftp", "svn",
     "svn+ssh", "ws", "wss"}
uses_netloc ==
    {"", "ftp", "http", "gopher", "nntp", "telnet", "imap", "wais", "file",
     "mms", "https", "shttp", "snews", "prospero", "rtsp", "rtsps", "rtspu",
     "rsync", "svn", "svn+ssh", "sftp", "nfs", "git", "git+ssh", "ws", "wss"}

\* urlunparse((scheme, netloc, path, '', '', ''))
urlunparse(u) ==
    LET path == JoinSlash(u.path)
        one_slash == Len(u.path) >= 2 /\ u.path[1] = ""
        two_slashes == Len(u.path) >= 3 /\ u.path[1] = "" /\ u.path[2] = ""
        with_netloc ==
            IF \/ u.netloc # ""
               \/ (u.scheme # "" /\ u.scheme \in uses_netloc /\ ~two_slashes)
            THEN "//" \o u.netloc
                     \o (IF path # "" /\ ~one_slash THEN "/" \o path ELSE path)
            ELSE path
    IN  IF u.scheme # "" THEN u.scheme \o ":" \o with_netloc ELSE with_netloc

\* segments[1:-1] = filter(None, segments[1:-1])
DropInnerEmpty(segs) ==
    IF Len(segs) <= 2 THEN segs
    ELSE <<segs[1]>>
         \o SelectSeq(SubSeq(segs, 2, Len(segs) - 1), LAMBDA x : x # "")
         \o <<segs[Len(segs)]>>

\* the loop resolving '.' and '..' segments
RECURSIVE ResolveDots(_, _)
ResolveDots(segs, resolved) ==
    IF segs = <<>> THEN resolved
    ELSE IF Head(segs) = ".."
         THEN ResolveDots(Tail(segs),
                  IF resolved = <<>> THEN resolved
                  ELSE SubSeq(resolved, 1, Len(resolved) - 1))
    ELSE IF Head(segs) = "." THEN ResolveDots(Tail(segs), resolved)
    ELSE ResolveDots(Tail(segs), Append(resolved, Head(segs)))

urljoin(base, url) ==
    IF base.text = "" THEN url.text
    ELSE IF url.text = "" THEN base.text
    ELSE LET scheme == IF url.scheme = "" THEN base.scheme ELSE url.scheme
             netloc == IF scheme \in uses_netloc THEN base.netloc ELSE url.netloc
         IN  IF scheme # base.scheme \/ scheme \notin uses_relative THEN url.text
             ELSE IF scheme \in uses_netloc /\ url.netloc # ""
                  THEN urlunparse(Components(scheme, url.netloc, url.path))
             ELSE IF url.path = <<"">>
                  THEN urlunparse(Components(scheme, netloc, base.path))
             ELSE LET base_parts ==
                          IF base.path[Len(base.path)] # ""
                          THEN SubSeq(base.path, 1, Len(base.path) - 1)
                          ELSE base.path
                      segments ==
                          IF Len(url.path) >= 2 /\ url.path[1] = ""
                          THEN url.path
                          ELSE DropInnerEmpty(base_parts \o url.path)
                      last_seg == segments[Len(segments)]
                      resolved_path ==
                          ResolveDots(segments, <<>>)
                              \o (IF last_seg \in {".", ".."} THEN <<"">> ELSE <<>>)
                      path == IF JoinSlash(resolved_path) = ""
                              THEN <<"", "">> ELSE resolved_path
                  IN  urlunparse(Components(scheme, netloc, path))

(***************************************************************************)
(* EntityBase.__odata_url__ and the class attribute __odata_url_base__.    *)
(* url_base[n] is the attribute as set on class n itself, Unset when the   *)
(* class inherits it; "Entity" is the declarative base of the classes and  *)
(* "EntityBase" the root, which sets ''.                                   *)
(***************************************************************************)
Unset == Url("<unset>", "unset", "", <<"">>)
EmptyUrl == Url("", "", "", <<"">>)
Holders == ClassNames \cup {"Entity"}

\* cls.__odata_url_base__, looked up along the class hierarchy
odata_url_base(ub, n) ==
    IF ub[n] # Unset THEN ub[n]
    ELSE IF ub["Entity"] # Unset THEN ub["Entity"]
    ELSE EmptyUrl

\* cls.__odata_url__()
odata_url_from_declarative_base(ub, n) ==
    urljoin(odata_url_base(ub, "Entity"), ClassOf(n).collection)
odata_url(ub, n) == urljoin(odata_url_base(ub, n), ClassOf(n).collection)

(***************************************************************************)
(* Inputs.                                                                 *)
(***************************************************************************)
\* service roots assigned to __odata_url_base__
Bases == { Url("https://svc/", "https", "svc", <<"", "">>),
           Url("https://svc/api", "https", "svc", <<"", "api">>),
           Url("https://svc/api/", "https", "svc", <<"", "api", "">>) }

\* identities of embedded object payloads
Stubs == {"r1", "r2"}
\* list payloads: up to MaxItems elements, neighbours distinct
ListPayloads ==
    {ListV(q) : q \in {r \in UNION {[1..n -> Stubs] : n \in 0..MaxItems} :
                          \A k \in 1..(Len(r) - 1) : r[k] # r[k + 1]}}

\* the navigation property that consumes the entry under wire name w
FirstNav(c, w) ==
    c.navs[CHOOSE n \in DOMAIN c.navs :
              /\ c.navs[n].name = w
              /\ \A m \in DOMAIN c.navs : c.navs[m].name = w => n <= m]
ValueProps(c, w) == {p \in Range(c.props) : p.name = w}

\* the values a raw mapping may hold under wire name w
WireValues(c, w) ==
    IF w \in NavWires(c)
    THEN IF FirstNav(c, w).is_collection THEN ListPayloads ELSE {DictV("r1")}
    ELSE IF w \notin ValueWires(c) THEN {IntV(1)}
    ELSE LET p == CHOOSE q \in ValueProps(c, w) : TRUE
         IN  CASE p.primary_key /\ p.type = "int" -> {None, IntV(0), IntV(5), IntV(7)}
               [] p.primary_key /\ p.type = "str" -> {StrV(""), StrV("a")}
               [] p.type = "int" -> {IntV(3)}
               [] p.type = "datetime" -> {StrV("2020-01-01T00:00:00")}
               [] OTHER -> {StrV("a")}

RawWires(c) == ValueWires(c) \cup NavWires(c) \cup {"Extra"}

\* every mapping that holds some of the wire names W, each with one of its values
RECURSIVE MappingsOver(_, _)
MappingsOver(c, W) ==
    IF W = {} THEN {EmptyDict}
    ELSE LET w == CHOOSE x \in W : TRUE
             rest == MappingsOver(c, W \ {w})
         IN  rest \cup {(w :> v) @@ d : v \in WireValues(c, w), d \in rest}

\* the sample of raw mappings constructed from: a record carries Created,
\* Modified and QuantityInStorage together or not at all, and only along
\* with ProductName
Sampled(d) ==
    /\ ("Created" \in DOMAIN d) = ("Modified" \in DOMAIN d)
    /\ ("Created" \in DOMAIN d) = ("QuantityInStorage" \in DOMAIN d)
    /\ "Created" \in DOMAIN d => "ProductName" \in DOMAIN d

RawMappings(c) == {d \in MappingsOver(c, RawWires(c)) : Sampled(d)}
RawMappingsOf == [n \in ClassNames |-> RawMappings(ClassOf(n))]

\* values that are not entity instances
NonEntities == {None, IntV(5), StrV("a")}

(***************************************************************************)
(* State.                                                                  *)
(***************************************************************************)
VARIABLES
    heap,       \* the live entity instances, each by its EntityState
    url_base,   \* __odata_url_base__ as set on each class
    last        \* the latest call: its arguments and what it returned

vars == <<heap, url_base, last>>

Init ==
    /\ heap = <<>>
    /\ url_base = [n \in Holders |-> Unset]
    /\ last = [op |-> "init"]

\* i = cls() or i = cls(from_data=raw_data)
New(n, kwargs) ==
    /\ Len(heap) < MaxInstances
    /\ LET r == new(ClassOf(n), kwargs)
       IN  /\ heap' = Append(heap, r.es)
           /\ last' = [op |-> "new", cls |-> n, kwargs |-> kwargs,
                       raw_data |-> r.raw_data, ref |-> Len(heap) + 1]
    /\ UNCHANGED url_base

\* heap[i] == heap[j]
EqEntity(i, j) ==
    /\ last' = [op |-> "eq", self |-> i, other_is_entity |-> TRUE, other |-> j,
                value |-> None, result |-> eq(heap[i], EntityArg(heap[j]))]
    /\ UNCHANGED <<heap, url_base>>

\* heap[i] == v, v not an entity
EqValue(i, v) ==
    /\ last' = [op |-> "eq", self |-> i, other_is_entity |-> FALSE, other |-> 0,
                value |-> v, result |-> eq(heap[i], ValueArg(v))]
    /\ UNCHANGED <<heap, url_base>>

\* repr(heap[i])
Repr(i) ==
    /\ last' = [op |-> "repr", self |-> i, result |-> repr(heap[i])]
    /\ UNCHANGED <<heap, url_base>>

\* holder.__odata_url_base__ = b
SetUrlBase(h, b) ==
    /\ url_base' = [url_base EXCEPT ![h] = b]
    /\ last' = [op |-> "set_url_base", cls |-> h]
    /\ UNCHANGED heap

\* cls.__odata_url__()
OdataUrl(n) ==
    /\ last' = [op |-> "url", cls |-> n, result |-> odata_url(url_base, n)]
    /\ UNCHANGED <<heap, url_base>>

\* the calls on entity instances
NextEntity ==
    \/ \E n \in ClassNames : \E d \in RawMappingsOf[n] : New(n, FromData(d))
    \/ \E n \in ClassNames : New(n, NoData)
    \/ \E i \in DOMAIN heap : \E j \in DOMAIN heap : EqEntity(i, j)
    \/ \E i \in DOMAIN heap : \E v \in NonEntities : EqValue(i, v)
    \/ \E i \in DOMAIN heap : Repr(i)

\* the calls on class metadata
NextUrl ==
    \/ \E h \in Holders : \E b \in Bases \cup {EmptyUrl} : SetUrlBase(h, b)
    \/ \E n \in ClassNames : OdataUrl(n)

Next == NextEntity \/ NextUrl

Spec == Init /\ [][Next]_vars

\* The calls on instances neither read nor write url_base, and the calls on
\* class metadata neither read nor write heap, so each group is checked in
\* the specification that runs it alone.
SpecEntity == Init /\ [][NextEntity]_vars
SpecUrl == Init /\ [][NextUrl]_vars

(***************************************************************************)
(* Properties of construction.  When the latest call is a construction,    *)
(* Made is the state of the instance it returned, Given the raw mapping    *)
(* as the caller passed it and Left the same mapping object afterwards.    *)
(***************************************************************************)
Constructed == last.op = "new"
Hydrated == last.op = "new" /\ last.kwargs.has_from_data
Unhydrated == last.op = "new" /\ ~last.kwargs.has_from_data
Made == heap[last.ref]
MadeClass == ClassOf(last.cls)
Given == last.kwargs.from_data
Left == last.raw_data
IsPayload(v) == v.k \in {"dict", "list"}

\* C3: hydrating from a raw mapping that holds every declared value wire
\* name stores, for each value property, the mapping's value under that
\* wire name as the value loop reads it (null when a navigation property of
\* the same wire name took the entry first), and stores no embedded
\* navigation payload among the scalar values.
C3_HydratedValuesEqualRaw ==
    (Hydrated /\ ValueWires(MadeClass) \subseteq DOMAIN Given) =>
        \A w \in ValueWires(MadeClass) :
            /\ w \in DOMAIN Made.data
            /\ Made.data[w] = (IF w \in NavWires(MadeClass) THEN None ELSE Given[w])
            /\ Made.data[w] = DictGet(Left, w)
            /\ ~IsPayload(Made.data[w])

C3_Witness ==
    /\ Hydrated
    /\ last.cls = "Link"
    /\ {"Code", "Ref"} \subseteq DOMAIN Given
    /\ Given["Code"] = StrV("a")
    /\ IsPayload(Given["Ref"])
    /\ Made.data["Code"] = StrV("a")
    /\ Made.data["Ref"] = None

\* C4: right after any construction the keys of the scalar values are
\* exactly the declared value wire names; a declared name the raw mapping
\* lacks is stored as null and an undeclared raw field is not stored.
C4_ValueKeysExactlyDeclared ==
    Constructed =>
        /\ DOMAIN Made.data = ValueWires(MadeClass)
        /\ Hydrated =>
             \A w \in ValueWires(MadeClass) \ DOMAIN Given : Made.data[w] = None

C4_Witness ==
    /\ Hydrated
    /\ last.cls = "Product"
    /\ DOMAIN Given = {"Id", "Extra"}
    /\ DOMAIN Made.data =
           {"Id", "Created", "Modified", "ProductName", "QuantityInStorage"}
    /\ Made.data["Id"] = IntV(7)
    /\ Made.data["ProductName"] = None
    /\ Made.data["Created"] = None

\* the nav_cache entry property P would make of the payload
NavEntry(P, payload) ==
    IF P.is_collection
    THEN [collection |-> [n \in 1..Len(payload.items) |-> [entity |-> payload.items[n]]]]
    ELSE [single |-> [entity |-> payload.s]]

\* C5 as claimed: every declared navigation property P has a nav_cache
\* entry iff the raw mapping held its wire name, tagged and converted by P
\* itself, and nav_cache has no other key.
C5_NavCachePerProperty ==
    Hydrated =>
        /\ \A P \in Range(MadeClass.navs) :
              /\ P.name \in DOMAIN Made.nav_cache <=> P.name \in DOMAIN Given
              /\ P.name \in DOMAIN Given =>
                    Made.nav_cache[P.name] = NavEntry(P, Given[P.name])
        /\ DOMAIN Made.nav_cache \subseteq NavWires(MadeClass)

\* C5 amended: the entry under a wire name is tagged and converted by the
\* first navigation property declared with that wire name (P itself when
\* no two navigation properties share a wire name).
C5_NavCachePerWireName ==
    Hydrated =>
        /\ \A P \in Range(MadeClass.navs) :
              /\ P.name \in DOMAIN Made.nav_cache <=> P.name \in DOMAIN Given
              /\ P.name \in DOMAIN Given =>
                    Made.nav_cache[P.name] =
                        NavEntry(FirstNav(MadeClass, P.name), Given[P.name])
        /\ DOMAIN Made.nav_cache \subseteq NavWires(MadeClass)

C5_Witness ==
    /\ Hydrated
    /\ last.cls = "Note"
    /\ "Tags" \in DOMAIN Given
    /\ Given["Tags"] = ListV(<<"r2", "r1">>)
    /\ Made.nav_cache["Tags"] = [collection |-> <<[entity |-> "r2"], [entity |-> "r1"]>>]

\* C6: construction without raw data leaves every declared value property
\* reading null, nav_cache empty and the dirty set empty.
C6_UnhydratedAllNull ==
    Unhydrated =>
        /\ \A p \in Range(MadeClass.props) :
              /\ p.name \in DOMAIN Made.data
              /\ StateGetItem(Made, p.name) = None
        /\ DOMAIN Made.nav_cache = {}
        /\ Made.dirty = {}

C6_Witness ==
    /\ Unhydrated
    /\ last.cls = "Product"
    /\ Made.data["Id"] = None
    /\ Made.data["ProductName"] = None
    /\ Made.data["QuantityInStorage"] = None

\* C7: the dirty set is empty when a construction returns, whatever the
\* raw mapping.
C7_HydrationNeverDirty == Constructed => Made.dirty = {}

C7_Witness ==
    /\ Hydrated
    /\ last.cls = "Product"
    /\ Made.data["Id"] = IntV(5)
    /\ Made.data["ProductName"] = StrV("a")
    /\ Made.data["QuantityInStorage"] = IntV(3)
    /\ Made.dirty = {}

\* C10: hydration changes the caller's mapping only by removing the keys
\* that are wire names of declared navigation properties; every other
\* entry stays as it was, and construction without raw data changes
\* nothing.
C10_RawMappingOnlyLosesNavKeys ==
    Constructed =>
        IF last.kwargs.has_from_data
        THEN /\ DOMAIN Left = DOMAIN Given \ NavWires(MadeClass)
             /\ \A w \in DOMAIN Left : Left[w] = Given[w]
        ELSE Left = Given

C10_Witness ==
    /\ Hydrated
    /\ last.cls = "Note"
    /\ DOMAIN Given = {"Text", "Tags", "Extra"}
    /\ DOMAIN Left = {"Text", "Extra"}
    /\ Left["Extra"] = IntV(1)

(***************************************************************************)
(* Properties of equality and of the debug representation.                 *)
(***************************************************************************)
\* the primary-key value of an instance, null when none is declared
KeyOf(es) ==
    LET keys == {p \in Range(ClassOf(es.cls).props) : p.primary_key}
    IN  IF keys = {} THEN None ELSE es.data[(CHOOSE p \in keys : TRUE).name]

\* C1: a == b is true iff b is an entity instance too, both primary-key
\* values are non-null and the two are equal, for every non-null key value
\* (0 and the empty string included); comparing with a non-entity value
\* gives not-equal.
C1_EqualIffNonNullKeysEqual ==
    last.op = "eq" =>
        last.result =
            (/\ last.other_is_entity
             /\ KeyOf(heap[last.self]) # None
             /\ KeyOf(heap[last.other]) # None
             /\ KeyOf(heap[last.self]) = KeyOf(heap[last.other]))

\* C2: every entity instance compares equal to itself.
C2_EqualityReflexive ==
    (last.op = "eq" /\ last.other_is_entity /\ last.other = last.self) =>
        last.result = TRUE

\* C8: the representation is Entity(<ClassName>:<escaped key>) whenever a
\* primary key is declared and its value is non-null, and Entity(<ClassName>)
\* otherwise.  The angle brackets the code puts around either form are
\* accepted here.
C8_ReprShowsEveryNonNullKey ==
    last.op = "repr" =>
        LET es == heap[last.self]
            keys == {p \in Range(ClassOf(es.cls).props) : p.primary_key}
            text == IF KeyOf(es) # None
                    THEN "Entity(" \o es.cls \o ":"
                           \o escape_value(CHOOSE p \in keys : TRUE, KeyOf(es)) \o ")"
                    ELSE "Entity(" \o es.cls \o ")"
        IN  last.result \in {text, "<" \o text \o ">"}

(***************************************************************************)
(* Properties of the URL resolver.                                         *)
(***************************************************************************)
\* the attribute value a lookup on class n finds now
CurrentBase(n) ==
    IF url_base[n] # Unset THEN url_base[n]
    ELSE IF url_base["Entity"] # Unset THEN url_base["Entity"] ELSE EmptyUrl

\* the join of each base with each class's collection name
JoinedUrl(b, n) ==
    CASE n = "Link" -> "https://other/Links"
      [] n = "Note" /\ b.text = "" -> "/Notes"
      [] n = "Note" /\ b.text # "" -> "https://svc/Notes"
      [] n = "Product" /\ b.text = "" -> "Products"
      [] n = "Product" /\ b.text = "https://svc/" -> "https://svc/Products"
      [] n = "Product" /\ b.text = "https://svc/api" -> "https://svc/Products"
      [] n = "Product" /\ b.text = "https://svc/api/" -> "https://svc/api/Products"

\* C9: a call of the URL resolver returns the join of the class's url_base
\* as it is at the call, after whatever assignments were made, with the
\* class's collection name: a relative name is resolved against the base
\* and an absolute one overrides it.
C9_UrlJoinsCurrentBase ==
    last.op = "url" => last.result = JoinedUrl(CurrentBase(last.cls), last.cls)

C9_Witness ==
    /\ last.op = "url"
    /\ last.cls = "Product"
    /\ url_base["Entity"].text = "https://svc/api/"
    /\ url_base["Product"].text = "https://svc/"
    /\ last.result = "https://svc/Products"

====
